---- MODULE Spec2Model ----
(***************************************************************************)
(* Model of src/app.py: the page fetch/parse function                      *)
(* _fetch_and_parse_page and the search loop of main().                    *)
(*                                                                         *)
(* A served page is a response: a transport status, the result containers  *)
(* of the markup in document order, and the three pagination attributes.   *)
(* Text is modelled by strings, attribute values that are parsed as        *)
(* integers by sequences of characters.                                    *)
(***************************************************************************)
EXTENDS Integers, Sequences, FiniteSets, TLC

\* ------------------------------------------------------------------ bounds
\* largest number of result containers in one page of markup
MaxBlocks == 2
\* largest page ceiling chosen when the server answers arbitrarily
MaxCeiling == 3
\* largest total result count of a consistent server
MaxTotal == 4
\* largest page size of a consistent server
MaxPageSize == 2

\* ------------------------------------------------------- program constants
\* st.slider("最大取得ページ数", 1, 10, 3)
SliderMin == 1
SliderMax == 10

\* ------------------------------------------------------------------ helpers
Min(a, b) == IF a <= b THEN a ELSE b

\* a sub-element that the markup does not contain / an attribute it lacks
Absent == "<absent>"
NoAttr == "<noattr>"

\* str.strip() and get_text(strip=True) on the text values of the model:
\* the only text with surrounding whitespace is the blank one
Strip(s) == IF s = " " THEN "" ELSE s

\* ------------------------------------------------------------- get_base_url
get_base_url(lang) ==
    IF lang = "en" THEN "https://wol.jw.org/en/wol/s/r1/lp-e"
    ELSE "https://wol.jw.org/ja/wol/s/r7/lp-j"

\* href values that occur in the model
RelHref == "/wol/d/doc1"
AbsHref == "https://www.jw.org/doc2"

\* urllib.parse.urljoin(base, url): an empty url yields the base itself, an
\* absolute url is kept, an absolute path replaces the path of the base
urljoin(base, url) ==
    IF url = "" THEN base
    ELSE IF url = AbsHref THEN url
    ELSE "https://wol.jw.org" \o url

\* tag.get("href", "").strip()
HrefOf(href) == IF href = NoAttr THEN "" ELSE Strip(href)

\* ------------------------------------------------------------ result blocks
\* A result container (rb) with the sub-elements the code selects in it:
\*   container       "legacy" = ul.results.resultContentDocument, "card" = li.navCard
\*   caption         li.caption present
\*   lnkText,lnkHref a.lnk inside the caption (lnkText = Absent: no a.lnk)
\*   snippetLi       li.searchResult present;  doc: text of its div.document
\*   cardTitleBlock  div.cardTitleBlock present
\*   line1, line2    text of div.cardLine1 / div.cardLine2
\*   anchor          href of the first <a> (Absent: no <a>)
\*   detail          text of div.cardTitleDetail
Block(c, cap, lt, lh, sl, d, ctb, l1, l2, a, det) ==
    [container |-> c, caption |-> cap, lnkText |-> lt, lnkHref |-> lh,
     snippetLi |-> sl, doc |-> d, cardTitleBlock |-> ctb,
     line1 |-> l1, line2 |-> l2, anchor |-> a, detail |-> det]

LegacyShaped(c) ==
    {Block(c, TRUE, "Title", h, TRUE, "Snippet", FALSE, Absent, Absent, Absent, Absent)
        : h \in {RelHref, AbsHref, "", " ", NoAttr}}
    \cup {Block(c, TRUE, t, RelHref, TRUE, "Snippet", FALSE, Absent, Absent, Absent, Absent)
        : t \in {Absent, "", " "}}
    \cup {Block(c, TRUE, "Title", RelHref, TRUE, Absent, FALSE, Absent, Absent, Absent, Absent),
          Block(c, TRUE, "Title", RelHref, FALSE, Absent, FALSE, Absent, Absent, Absent, Absent)}

CardShaped(c) ==
    {Block(c, FALSE, Absent, NoAttr, FALSE, Absent, TRUE, t[1], t[2], RelHref, "Pub")
        : t \in {<<"Card", Absent>>, <<"Card", "Alt">>, <<"", "Alt">>, <<Absent, "Alt">>,
                 <<Absent, Absent>>, <<" ", " ">>}}
    \cup {Block(c, FALSE, Absent, NoAttr, FALSE, Absent, TRUE, "Card", Absent, a, "Pub")
        : a \in {Absent, NoAttr, ""}}
    \cup {Block(c, FALSE, Absent, NoAttr, FALSE, Absent, TRUE, "Card", Absent, RelHref, Absent)}

MixedShaped(c) ==
    {\* caption and card title block in one container
     Block(c, TRUE, "Title", RelHref, TRUE, "Snippet", TRUE, "Card", Absent, AbsHref, "Pub"),
     \* neither
     Block(c, FALSE, Absent, NoAttr, FALSE, Absent, FALSE, Absent, Absent, RelHref, Absent)}

Blocks ==
    UNION {LegacyShaped(c) \cup CardShaped(c) \cup MixedShaped(c) : c \in {"legacy", "card"}}

\* one result block: lines 133-174 (the record, or <<>> when it is filtered out)
ExtractBlock(rb, base_url) ==
    LET legacyTitle == IF rb.lnkText # Absent THEN Strip(rb.lnkText) ELSE ""
        legacyLink  == IF rb.lnkText # Absent
                       THEN urljoin(base_url, HrefOf(rb.lnkHref)) ELSE ""
        legacySnip  == IF rb.snippetLi /\ rb.doc # Absent THEN Strip(rb.doc) ELSE ""
        line1       == IF rb.line1 # Absent THEN Strip(rb.line1) ELSE ""
        cardTitle   == IF line1 = "" /\ rb.line2 # Absent THEN Strip(rb.line2) ELSE line1
        cardLink    == IF rb.anchor # Absent
                       THEN urljoin(base_url, HrefOf(rb.anchor)) ELSE ""
        cardPub     == IF rb.detail # Absent THEN Strip(rb.detail) ELSE ""
        rec == IF rb.caption
               THEN [title |-> legacyTitle, link |-> legacyLink,
                     snippet |-> legacySnip, publication |-> ""]
               ELSE IF rb.cardTitleBlock
               THEN [title |-> cardTitle, link |-> cardLink,
                     snippet |-> "", publication |-> cardPub]
               ELSE [title |-> "", link |-> "", snippet |-> "", publication |-> ""]
    IN  IF rec.title # "" /\ rec.link # "" THEN <<rec>> ELSE <<>>

IsLegacy(rb) == rb.container = "legacy"
IsCard(rb) == rb.container = "card"

\* variant: the card containers are processed along with the legacy ones
SelectResultBlocks_both(markup) == markup

\* lines 127-130: soup.select of the legacy containers, else of the cards
SelectResultBlocks(markup) ==
    IF SelectSeq(markup, IsLegacy) # <<>>
    THEN SelectSeq(markup, IsLegacy)
    ELSE SelectSeq(markup, IsCard)

RECURSIVE ExtractItems(_, _)
\* lines 125-174: the for loop over result_blocks
ExtractItems(result_blocks, base_url) ==
    IF result_blocks = <<>> THEN <<>>
    ELSE ExtractBlock(Head(result_blocks), base_url)
         \o ExtractItems(Tail(result_blocks), base_url)

\* --------------------------------------------------------------- pagination
\* value of a pagination element:  NoElem (select_one gives None, the
\* subscript raises TypeError), NoValue (no "value" attribute, KeyError), or
\* the attribute's characters
NoElem == <<"#noelem">>
NoValue == <<"#novalue">>

Digits == <<"0", "1", "2", "3", "4", "5", "6", "7", "8", "9">>
DigitVal(ch) == (CHOOSE i \in 1..10 : Digits[i] = ch) - 1
IsDigit(ch) == \E i \in 1..10 : Digits[i] = ch

RECURSIVE DecVal(_)
DecVal(s) == IF s = <<>> THEN 0
             ELSE 10 * DecVal(SubSeq(s, 1, Len(s) - 1)) + DigitVal(s[Len(s)])

\* int(s) on unsigned attribute text: ValueError unless a non-empty digit string
IsNumeric(s) == s # <<>> /\ \A i \in 1..Len(s) : IsDigit(s[i])

RECURSIVE ToStr(_)
\* the server's decimal rendering of a count
ToStr(n) == IF n < 10 THEN <<Digits[n + 1]>>
            ELSE ToStr(n \div 10) \o <<Digits[(n % 10) + 1]>>

\* line 184
TotalPages(total, page_size) == (total + page_size - 1) \div page_size

\* variant: the last page still reports a next page
HasNext_inclusive(current_page, total_pages) == current_page <= total_pages

\* line 185
HasNext(current_page, total_pages) == current_page < total_pages

\* lines 177-197; outcome "raised" is an exception the inner handler does not
\* catch (ValueError from int(), ZeroDivisionError)
Pagination(meta, nitems) ==
    IF \E f \in {meta.total, meta.size, meta.cur} : f \in {NoElem, NoValue}
    THEN [raised |-> FALSE, has_next |-> FALSE,
          result_info |-> [total |-> nitems, current_page |-> 1, total_pages |-> 1]]
    ELSE IF ~(IsNumeric(meta.total) /\ IsNumeric(meta.size) /\ IsNumeric(meta.cur))
            \/ DecVal(meta.size) = 0
    THEN [raised |-> TRUE, has_next |-> FALSE,
          result_info |-> [total |-> 0, current_page |-> 1, total_pages |-> 1]]
    ELSE LET total == DecVal(meta.total)
             page_size == DecVal(meta.size)
             current_page == DecVal(meta.cur)
             total_pages == TotalPages(total, page_size)
         IN  [raised |-> FALSE, has_next |-> HasNext(current_page, total_pages),
              result_info |-> [total |-> total, current_page |-> current_page,
                               total_pages |-> total_pages]]

\* variant: a failed page asks for the next page
FailureOutcome_continues ==
    [items |-> <<>>, has_next |-> TRUE,
     result_info |-> [total |-> 0, current_page |-> 1, total_pages |-> 1],
     error |-> TRUE]

\* value returned from the outer except clause, lines 201-203
FailureOutcome ==
    [items |-> <<>>, has_next |-> FALSE,
     result_info |-> [total |-> 0, current_page |-> 1, total_pages |-> 1],
     error |-> TRUE]

\* _fetch_and_parse_page, lines 106-203; error = st.error was called
_fetch_and_parse_page(resp, lang) ==
    IF resp.transport # "ok" THEN FailureOutcome
    ELSE LET items == ExtractItems(SelectResultBlocks(resp.markup), get_base_url(lang))
             pg == Pagination(resp.meta, Len(items))
         IN  IF pg.raised THEN FailureOutcome
             ELSE [items |-> items, has_next |-> pg.has_next,
                   result_info |-> pg.result_info, error |-> FALSE]

\* ------------------------------------------------------------------- state
VARIABLES
    keyword,      \* st.text_input of the run in progress
    lang,         \* st.selectbox language
    max_pages,    \* st.slider
    all_results,  \* st.session_state.all_results
    page_num,     \* loop counter of main()
    total_pages,  \* main()'s total_pages
    pc,           \* "idle", "loop", "after" (main); "page", "parsed" (one page)
    status,       \* closing message of a search: "none", "success", "warning"
    response,     \* the response served to the latest request
    page_data,    \* the value _fetch_and_parse_page returned for it
    fetched,      \* history of this search: <<[pg, resp, data], ...>>
    events,       \* history of this search: "fetch", "progress", "sleep"
    progress,     \* history of st.progress operands: <<[pg, tp], ...>>
    server,       \* the remote service
    had_results   \* the accumulator held records when this search started

vars == <<keyword, lang, max_pages, all_results, page_num, total_pages, pc, status,
          response, page_data, fetched, events, progress, server, had_results>>

NoResponse == [transport |-> "none", markup |-> <<>>,
               meta |-> [total |-> NoElem, size |-> NoElem, cur |-> NoElem]]
NoPageData == [items |-> <<>>, has_next |-> FALSE,
               result_info |-> [total |-> 0, current_page |-> 0, total_pages |-> 0],
               error |-> FALSE]

\* ------------------------------------------------------------------ servers
Meta(t, s, c) == [total |-> t, size |-> s, cur |-> c]
MissingMeta == Meta(NoElem, NoElem, NoElem)

GoodLegacy == Block("legacy", TRUE, "Title", RelHref, TRUE, "Snippet", FALSE,
                    Absent, Absent, Absent, Absent)
GoodCard == Block("card", FALSE, Absent, NoAttr, FALSE, Absent, TRUE,
                  "Card", Absent, RelHref, "Pub")
NoTitleCard == Block("card", FALSE, Absent, NoAttr, FALSE, Absent, TRUE,
                     Absent, Absent, RelHref, "Pub")

\* what a server that answers arbitrarily may send
AnyMarkups == {<<>>, <<GoodLegacy>>, <<GoodCard, NoTitleCard>>}
AnyMetas == {MissingMeta, Meta(<<"x">>, <<"2">>, <<"1">>), Meta(<<"0">>, <<"2">>, <<"1">>)}
            \cup {Meta(<<"5">>, <<"2">>, <<c>>) : c \in {"1", "2", "3"}}

Failure(kind) == [transport |-> kind, markup |-> <<>>, meta |-> MissingMeta]

\* records on page n of a consistent server
PageCount(total, size, n) ==
    IF total - (n - 1) * size <= 0 THEN 0 ELSE Min(size, total - (n - 1) * size)

Responses(srv, n) ==
    IF srv.mode = "any"
    THEN {[transport |-> "ok", markup |-> m, meta |-> x] : m \in AnyMarkups, x \in AnyMetas}
         \cup {Failure("http_error"), Failure("network_error")}
    ELSE LET m == [i \in 1..PageCount(srv.total, srv.size, n) |-> GoodLegacy]
         IN  {[transport |-> "ok", markup |-> m,
               meta |-> Meta(ToStr(srv.total), ToStr(srv.size), ToStr(n))],
              [transport |-> "ok", markup |-> m, meta |-> MissingMeta],
              Failure("http_error")}

AnyServer == [mode |-> "any", total |-> 0, size |-> 1]
Servers(mode) ==
    IF mode = "any" THEN {AnyServer}
    ELSE {[mode |-> "consistent", total |-> t, size |-> s]
            : t \in 0..MaxTotal, s \in 1..MaxPageSize}

\* slider positions explored for a server
Ceilings(mode) ==
    IF mode = "any" THEN SliderMin..Min(SliderMax, MaxCeiling) ELSE SliderMin..SliderMax

\* ----------------------------------------------------------- main(): search
\* variant: a new search keeps the records of the previous one
ResetResults_keep(old) == old

\* line 441
ResetResults(old) == <<>>

\* line 458
ExtendResults(old, items) == old \o items

\* line 462
ClampTotalPages(mp, tp) == Min(mp, tp)

\* variant: the loop goes on when page 1 reports no pages
BreakOnNoPages_never(tp) == FALSE

\* lines 463-464
BreakOnNoPages(tp) == tp = 0

\* line 453
LoopCondition(pn, mp) == pn <= mp

\* lines 481-484
Summary(results) == IF Len(results) > 0 THEN "success" ELSE "warning"

\* a run of main() with the search button pressed and a keyword: lines 440-451
StartSearch ==
    /\ pc = "idle"
    /\ \E lg \in {"ja", "en"}, mp \in Ceilings(server.mode), srv \in Servers(server.mode) :
        /\ lang' = lg
        /\ max_pages' = mp
        /\ server' = srv
        /\ total_pages' = mp
    /\ keyword' = "faith"
    /\ all_results' = ResetResults(all_results)
    /\ page_num' = 1
    /\ pc' = "loop"
    /\ status' = "none"
    /\ response' = NoResponse
    /\ page_data' = NoPageData
    /\ fetched' = <<>>
    /\ events' = <<>>
    /\ progress' = <<>>
    /\ had_results' = (all_results # <<>>)

\* a run of main() without a search (button not pressed, or empty keyword):
\* line 440 is false, the closing message is not rendered again
Rerun ==
    /\ pc = "idle"
    /\ status # "none"
    /\ \E kw \in {"", "faith"} : keyword' = kw
    /\ status' = "none"
    /\ UNCHANGED <<lang, max_pages, all_results, page_num, total_pages, pc,
                   response, page_data, fetched, events, progress, server,
                   had_results>>

\* one iteration of the while loop: lines 453-475
LoopIteration ==
    /\ pc = "loop"
    /\ LoopCondition(page_num, max_pages)
    /\ \E resp \in Responses(server, page_num) :
        LET pd == _fetch_and_parse_page(resp, lang)
            tp == IF page_num = 1
                  THEN ClampTotalPages(max_pages, pd.result_info.total_pages)
                  ELSE total_pages
            noPages == page_num = 1 /\ BreakOnNoPages(tp)
            more == ~noPages /\ pd.has_next
        IN  /\ response' = resp
            /\ page_data' = pd
            /\ fetched' = Append(fetched, [pg |-> page_num, resp |-> resp, data |-> pd])
            /\ all_results' = ExtendResults(all_results, pd.items)
            /\ total_pages' = tp
            /\ progress' = IF noPages THEN progress
                           ELSE Append(progress, [pg |-> page_num, tp |-> tp])
            /\ events' = events \o <<"fetch">>
                         \o (IF noPages THEN <<>> ELSE <<"progress">>)
                         \o (IF more THEN <<"sleep">> ELSE <<>>)
            /\ page_num' = IF more THEN page_num + 1 ELSE page_num
            /\ pc' = IF more THEN "loop" ELSE "after"
    /\ UNCHANGED <<keyword, lang, max_pages, status, server, had_results>>

\* the loop condition fails: line 453
LoopEnd ==
    /\ pc = "loop"
    /\ ~LoopCondition(page_num, max_pages)
    /\ pc' = "after"
    /\ UNCHANGED <<keyword, lang, max_pages, all_results, page_num, total_pages, status,
                   response, page_data, fetched, events, progress, server,
                   had_results>>

\* after the loop: lines 477-484
Finish ==
    /\ pc = "after"
    /\ status' = Summary(all_results)
    /\ pc' = "idle"
    /\ UNCHANGED <<keyword, lang, max_pages, all_results, page_num, total_pages,
                   response, page_data, fetched, events, progress, server,
                   had_results>>

InitSession(mode) ==
    /\ keyword = ""
    /\ lang = "ja"
    /\ max_pages = 3
    /\ all_results = <<>>
    /\ page_num = 1
    /\ total_pages = 3
    /\ pc = "idle"
    /\ status = "none"
    /\ response = NoResponse
    /\ page_data = NoPageData
    /\ fetched = <<>>
    /\ events = <<>>
    /\ progress = <<>>
    /\ server \in Servers(mode)
    /\ had_results = FALSE

Init == InitSession("any")
InitConsistent == InitSession("consistent")

Next == StartSearch \/ Rerun \/ LoopIteration \/ LoopEnd \/ Finish

\* searches against a server that answers arbitrarily
Spec == Init /\ [][Next]_vars

\* searches against a server with a fixed result count and page size
SpecConsistent == InitConsistent /\ [][Next]_vars

\* ------------------------------------------------- one page, all its shapes
RECURSIVE SeqsUpTo(_, _)
SeqsUpTo(S, n) ==
    IF n = 0 THEN {<<>>}
    ELSE LET shorter == SeqsUpTo(S, n - 1)
         IN  shorter \cup {Append(q, x) : q \in {r \in shorter : Len(r) = n - 1}, x \in S}

Markups == SeqsUpTo(Blocks, MaxBlocks)

PageMetas ==
    {Meta(t, s, c) : t \in {NoElem, NoValue, <<"x">>, <<>>, <<"0">>, <<"5">>},
                     s \in {NoElem, NoValue, <<"x">>, <<"0">>, <<"2">>},
                     c \in {NoElem, NoValue, <<"x">>, <<"1">>, <<"3">>}}

PageInputs ==
    {[transport |-> "ok", markup |-> m, meta |-> Meta(<<"5">>, <<"2">>, <<"1">>)]
        : m \in Markups}
    \cup {[transport |-> t, markup |-> m, meta |-> x]
        : t \in {"ok", "http_error", "network_error"}, m \in AnyMarkups, x \in PageMetas}

InitPage ==
    /\ keyword = "faith"
    /\ lang \in {"ja", "en"}
    /\ max_pages = 3
    /\ all_results = <<>>
    /\ page_num = 1
    /\ total_pages = 3
    /\ pc = "page"
    /\ status = "none"
    /\ response \in PageInputs
    /\ page_data = NoPageData
    /\ fetched = <<>>
    /\ events = <<>>
    /\ progress = <<>>
    /\ server = AnyServer
    /\ had_results = FALSE

\* one call of _fetch_and_parse_page
FetchPage ==
    /\ pc = "page"
    /\ page_data' = _fetch_and_parse_page(response, lang)
    /\ pc' = "parsed"
    /\ UNCHANGED <<keyword, lang, max_pages, all_results, page_num, total_pages, status,
                   response, fetched, events, progress, server, had_results>>

NextPage == FetchPage

SpecPage == InitPage /\ [][NextPage]_vars

\* ---------------------------------------------------------------- properties
RECURSIVE Flatten(_)
Flatten(ss) == IF ss = <<>> THEN <<>> ELSE Head(ss) \o Flatten(Tail(ss))

\* the records each fetched page returned, in fetch order
ReturnedItems == [i \in 1..Len(fetched) |-> fetched[i].data.items]
FetchedPages == [i \in 1..Len(fetched) |-> fetched[i].pg]
Count(ev) == Cardinality({i \in 1..Len(events) : events[i] = ev})
Blank(t) == t \in {Absent, NoAttr, "", " "}

MetaMissing(meta) == \E f \in {meta.total, meta.size, meta.cur} : f \in {NoElem, NoValue}
MetaNonNumeric(meta) ==
    \E f \in {meta.total, meta.size, meta.cur} :
        f \notin {NoElem, NoValue} /\ (f = <<>> \/ \E i \in 1..Len(f) : ~IsDigit(f[i]))

\* the containers the page's records may come from
Processed(markup) ==
    IF \E i \in 1..Len(markup) : markup[i].container = "legacy"
    THEN SelectSeq(markup, IsLegacy) ELSE SelectSeq(markup, IsCard)

\* C1: a successfully fetched page whose pagination metadata is missing or
\* non-numeric returns its records with has_next = FALSE and result_info =
\* {total: record count, current_page: 1, total_pages: 1}, and no error is shown.
C1_PaginationFallback ==
    (pc = "parsed" /\ response.transport = "ok"
        /\ (MetaMissing(response.meta) \/ MetaNonNumeric(response.meta)))
    => /\ page_data.items = ExtractItems(Processed(response.markup), get_base_url(lang))
       /\ page_data.has_next = FALSE
       /\ page_data.result_info = [total |-> Len(page_data.items),
                                   current_page |-> 1, total_pages |-> 1]
       /\ page_data.error = FALSE

\* C2: a page that yields zero records is the last page fetched in its search.
C2_EmptyPageIsLast ==
    \A i \in 1..Len(fetched) : fetched[i].data.items = <<>> => i = Len(fetched)

\* true total-page count of the consistent server: the least T with T * size >= total
TruePages == CHOOSE t \in 0..server.total : t * server.size >= server.total
                                            /\ (t - 1) * server.size < server.total

\* every page fetched so far was served normally: no failure, metadata present,
\* and each of the server's pages non-empty
ServedNormally ==
    \A i \in 1..Len(fetched) :
        /\ fetched[i].resp.transport = "ok"
        /\ fetched[i].resp.meta # MissingMeta
        /\ (fetched[i].pg <= TruePages => fetched[i].data.items # <<>>)

\* C3: against a consistent server with T >= 1 pages, all served normally, a
\* search with ceiling M fetches pages 1, 2, ... in order, never more than
\* min(M, T) of them, and exactly min(M, T) once the loop has ended.
C3_CeilingClamp ==
    (pc \in {"loop", "after"} /\ server.mode = "consistent" /\ server.total >= 1
        /\ ServedNormally)
    => /\ FetchedPages = [i \in 1..Len(fetched) |-> i]
       /\ Len(fetched) <= Min(max_pages, TruePages)
       /\ (pc = "after" => Len(fetched) = Min(max_pages, TruePages))

C3_Witness ==
    /\ pc = "after" /\ server.mode = "consistent" /\ ServedNormally
    /\ max_pages = 10 /\ server.total = 3 /\ server.size = 1
    /\ FetchedPages = <<1, 2, 3>>

\* C4: a transport failure on page n ends the search: page n is the last page
\* requested, the loop is left, and the accumulator holds exactly the records
\* of pages 1..n-1 in order.
C4_TransportFailureTerminates ==
    \A n \in 1..Len(fetched) :
        fetched[n].resp.transport # "ok"
        => /\ n = Len(fetched)
           /\ pc # "loop"
           /\ all_results = Flatten(SubSeq(ReturnedItems, 1, n - 1))
           /\ fetched[n].data.items = <<>>

C4_Witness ==
    /\ pc = "idle" /\ Len(fetched) = 2
    /\ fetched[1].data.items # <<>>
    /\ fetched[2].resp.transport = "http_error"
    /\ all_results = fetched[1].data.items

\* C5: a search whose page 1 fails ends with the "no results" status; a search
\* that fails on a later page after records were gathered never ends with the
\* plain success status.
C5_TerminalStatus ==
    (pc = "idle" /\ status # "none" /\ fetched # <<>>
        /\ fetched[Len(fetched)].resp.transport # "ok")
    => /\ (Len(fetched) = 1 => status = "warning")
       /\ (Len(fetched) > 1 /\ all_results # <<>> => status # "success")

\* a container that offers a title and a link: the sub-element the code reads
\* the title from has text, and its anchor has a non-empty href
OffersTitleAndLink(rb) ==
    IF rb.caption THEN ~Blank(rb.lnkText) /\ ~Blank(rb.lnkHref)
    ELSE /\ rb.cardTitleBlock
         /\ (~Blank(rb.line1) \/ ~Blank(rb.line2))
         /\ ~Blank(rb.anchor)

\* C6: a result block whose title is empty, or that has no link anchor, or
\* whose anchor has a missing or empty href, yields no record; every record
\* returned has a non-empty title and a non-empty link.
C6_NoRecordWithoutTitleOrLink ==
    pc = "parsed"
    => /\ Len(page_data.items)
            <= Cardinality({i \in 1..Len(Processed(response.markup)) :
                                OffersTitleAndLink(Processed(response.markup)[i])})
       /\ \A i \in 1..Len(page_data.items) :
            page_data.items[i].title # "" /\ page_data.items[i].link # ""

\* C7: the accumulator always equals the concatenation, in page order and then
\* in-page order, of the records returned by the pages of the most recent
\* search, and a loop iteration only appends to it.
C7_AccumulatorIsLatestSearch ==
    [][/\ all_results' = Flatten(ReturnedItems')
       /\ (pc = "loop" => SubSeq(all_results', 1, Len(all_results)) = all_results)]_vars

C7_Witness ==
    /\ had_results /\ pc = "idle" /\ Len(fetched) = 2
    /\ fetched[1].data.items = <<>>
    /\ Len(fetched[2].data.items) = 1
    /\ all_results = fetched[2].data.items

\* the record a processed container yields by itself, with the legacy caption
\* tried before the card title block
LegacyRecord(rb, base) ==
    [title |-> Strip(rb.lnkText), link |-> urljoin(base, HrefOf(rb.lnkHref)),
     snippet |-> IF rb.snippetLi /\ rb.doc # Absent THEN rb.doc ELSE "", publication |-> ""]
CardRecord(rb, base) ==
    [title |-> IF Blank(rb.line1) THEN (IF Blank(rb.line2) THEN "" ELSE rb.line2) ELSE rb.line1,
     link |-> IF rb.anchor = Absent THEN "" ELSE urljoin(base, HrefOf(rb.anchor)),
     snippet |-> "", publication |-> IF rb.detail = Absent THEN "" ELSE rb.detail]
Yield(rb, base) ==
    LET r == IF rb.caption
             THEN (IF rb.lnkText = Absent
                   THEN [title |-> "", link |-> "", snippet |-> "", publication |-> ""]
                   ELSE LegacyRecord(rb, base))
             ELSE IF rb.cardTitleBlock THEN CardRecord(rb, base)
             ELSE [title |-> "", link |-> "", snippet |-> "", publication |-> ""]
    IN  IF r.title = "" \/ r.link = "" THEN <<>> ELSE <<r>>

\* C8: when the markup holds legacy containers only they are processed, card
\* containers only when there is no legacy container; in a container the
\* caption is tried before the card title block, and a container with neither
\* yields nothing.
C8_LegacyPriority ==
    (pc = "parsed" /\ ~page_data.error)
    => LET m == response.markup
           legacy == {i \in 1..Len(m) : m[i].container = "legacy"}
           used == IF legacy # {} THEN legacy ELSE 1..Len(m)
           kept == SelectSeq([i \in 1..Len(m) |-> [i |-> i, rb |-> m[i]]],
                             LAMBDA e : e.i \in used)
       IN  page_data.items
             = Flatten([k \in 1..Len(kept) |-> Yield(kept[k].rb, get_base_url(lang))])

C8_Witness ==
    /\ pc = "parsed" /\ ~page_data.error /\ Len(response.markup) = 2
    /\ response.markup[1].container = "card" /\ response.markup[1].cardTitleBlock
    /\ response.markup[1].line1 = "Card" /\ response.markup[1].anchor = RelHref
    /\ response.markup[2].container = "legacy" /\ response.markup[2].caption
    /\ response.markup[2].cardTitleBlock
    /\ Len(page_data.items) = 1
    /\ page_data.items[1].title = "Title" /\ page_data.items[1].publication = ""

\* C9: when the loop has ended, the sleeps of the search number one less than
\* its fetches, and no sleep follows the last fetch.
C9_DelayOnlyBetweenFetches ==
    (pc = "after" /\ events # <<>>)
    => /\ Count("sleep") = Count("fetch") - 1
       /\ events[Len(events)] # "sleep"

\* C10: every progress fraction page_num / total_pages has total_pages # 0
\* and 1 <= page_num <= total_pages.
C10_ProgressWellFormed ==
    \A i \in 1..Len(progress) :
        /\ progress[i].tp # 0
        /\ 1 <= progress[i].pg
        /\ progress[i].pg <= progress[i].tp

C10_Witness ==
    /\ pc = "after" /\ Len(progress) = 3 /\ max_pages = 10
    /\ progress[3] = [pg |-> 3, tp |-> 4]
    /\ fetched[3].resp.transport # "ok"
====
